---------------------------- MODULE Spec2Model ----------------------------
(***************************************************************************)
(* Model of the n8n "HTTP Request (Throttled)" node:                       *)
(*   - throttling.ts        : normalizeHeaders, firstPresentInt,           *)
(*                            parseRetryAfterToMs, parseResetToWaitMs,     *)
(*                            computeWaitMs, applyJitter                   *)
(*   - throttle-wrapper.ts  : wrapHelpersWithThrottling / throttledCall    *)
(*   - HttpRequestThrottled.node.ts : readThrottleConfig, execute,         *)
(*                            fallbackExecute                              *)
(***************************************************************************)
EXTENDS Integers, Sequences, FiniteSets, TLC

(***************************************************************************)
(* Numbers.  Epoch timestamps (about 1.7 * 10^12 ms) do not fit the 32-bit *)
(* integers of the model checker, so a JavaScript number that may hold a   *)
(* timestamp is kept as two limbs: value = hi * BigBase + lo with          *)
(* 0 <= lo < BigBase (hi carries the sign).                                *)
(***************************************************************************)
BigBase == 1000 * 1000

Big(h, l) == [hi |-> h, lo |-> l]

BigOf(n) == [hi |-> n \div BigBase, lo |-> n % BigBase]

BigZero == Big(0, 0)

BigLT(a, b) == a.hi < b.hi \/ (a.hi = b.hi /\ a.lo < b.lo)

BigGT(a, b) == BigLT(b, a)

BigLE(a, b) == ~BigLT(b, a)

BigSub(a, b) ==
    LET d == a.lo - b.lo
    IN  IF d >= 0 THEN Big(a.hi - b.hi, d) ELSE Big(a.hi - b.hi - 1, d + BigBase)

BigMul1000(a) ==
    LET l == a.lo * 1000
    IN  Big(a.hi * 1000 + (l \div BigBase), l % BigBase)

BigMin(a, b) == IF BigLT(b, a) THEN b ELSE a

\* Only used on values already known to be small (|value| < 2^31).
BigToInt(a) == a.hi * BigBase + a.lo

Min(a, b) == IF a < b THEN a ELSE b

Max(a, b) == IF a > b THEN a ELSE b

(***************************************************************************)
(* "number | null" results.                                                *)
(***************************************************************************)
Null == [some |-> FALSE, v |-> BigZero]

Some(x) == [some |-> TRUE, v |-> x]

(***************************************************************************)
(* Header values.  A header string is classified by what the parsers of    *)
(* throttling.ts can see in it:                                            *)
(*   "int"     a decimal integer literal; n is its value ("-1" has n < 0)  *)
(*   "huge"    a digit string so long that parseInt yields Infinity        *)
(*   "date"    an RFC 1123 HTTP date; n is the instant Date.parse returns  *)
(*   "empty"   the empty string                                            *)
(*   "garbage" text that is neither a number nor a date ("abc")            *)
(*   "prefix"  digits followed by other text ("5 left"); n is the value of *)
(*             the leading digits, which is what parseInt reads            *)
(* A raw header value is one string, an array of strings (a repeated       *)
(* header) or null; a raw header map is the ordered list of its entries    *)
(* (Object.entries order).                                                 *)
(***************************************************************************)
Str(t, n) == [t |-> t, n |-> n]

IntStr(n) == Str("int", BigOf(n))

HugeStr == Str("huge", BigZero)

EmptyStr == Str("empty", BigZero)

GarbageStr == Str("garbage", BigZero)

PrefixStr(n) == Str("prefix", BigOf(n))

DateStr(at) == Str("date", at)

Single(s) == [kind |-> "single", items |-> <<s>>]

Repeated(ss) == [kind |-> "array", items |-> ss]

NullValue == [kind |-> "null", items |-> <<>>]

Entry(k, v) == [key |-> k, val |-> v]

\* mutant of ToLowerCase: the name is kept as it is
ToLowerCase_Identity(k) == k

\* String.prototype.toLowerCase on the header names the model uses.
ToLowerCase(k) ==
    CASE k = "Retry-After" -> "retry-after"
      [] k = "RETRY-AFTER" -> "retry-after"
      [] k = "X-RATELIMIT-REMAINING" -> "x-ratelimit-remaining"
      [] k = "X-RATELIMIT-RESET" -> "x-ratelimit-reset"
      [] k = "X-HUBSPOT-RATELIMIT-REMAINING" -> "x-hubspot-ratelimit-remaining"
      [] k = "X-HUBSPOT-RATELIMIT-RESET" -> "x-hubspot-ratelimit-reset"
      [] k = "RATELIMIT-REMAINING" -> "ratelimit-remaining"
      [] k = "RATELIMIT-RESET" -> "ratelimit-reset"
      [] k = "X-RateLimit-Remaining" -> "x-ratelimit-remaining"
      [] k = "X-RateLimit-Reset" -> "x-ratelimit-reset"
      [] k = "X-HubSpot-RateLimit-Remaining" -> "x-hubspot-ratelimit-remaining"
      [] k = "X-HubSpot-RateLimit-Reset" -> "x-hubspot-ratelimit-reset"
      [] k = "RateLimit-Remaining" -> "ratelimit-remaining"
      [] k = "RateLimit-Reset" -> "ratelimit-reset"
      [] OTHER -> k

\* mutant of StringOf: an array contributes its last element
StringOf_Last(v) ==
    IF v.kind = "array" /\ Len(v.items) = 0 THEN GarbageStr ELSE v.items[Len(v.items)]

\* String(v) for a header value: an array contributes String(v[0]);
\* String(undefined) of an empty array is the text "undefined".
StringOf(v) ==
    IF v.kind = "array" /\ Len(v.items) = 0 THEN GarbageStr ELSE v.items[1]

RECURSIVE NormalizeFrom(_, _, _)
NormalizeFrom(raw, i, out) ==
    IF i > Len(raw) THEN out
    ELSE LET e == raw[i]
             k == ToLowerCase(e.key)
         IN  IF e.val.kind = "null"
             THEN NormalizeFrom(raw, i + 1, out)
             ELSE NormalizeFrom(raw, i + 1,
                      [x \in (DOMAIN out) \cup {k} |->
                          IF x = k THEN StringOf(e.val) ELSE out[x]])

normalizeHeaders(raw) == NormalizeFrom(raw, 1, <<>>)

\* "!v" of firstPresentInt and "if (ra)" of computeWaitMs: the key is
\* missing or its string is empty.
Truthy(h, k) == k \in DOMAIN h /\ h[k].t # "empty"

\* parseInt(v, 10) followed by Number.isFinite.
ParseIntFinite(s) == IF s.t \in {"int", "prefix"} THEN Some(s.n) ELSE Null

RECURSIVE FirstPresentIntFrom(_, _, _)
FirstPresentIntFrom(h, keys, i) ==
    IF i > Len(keys) THEN Null
    ELSE IF ~Truthy(h, keys[i]) THEN FirstPresentIntFrom(h, keys, i + 1)
    ELSE LET n == ParseIntFinite(h[keys[i]])
         IN  IF n.some THEN n ELSE FirstPresentIntFrom(h, keys, i + 1)

firstPresentInt(h, keys) == FirstPresentIntFrom(h, keys, 1)

\* /^\d+$/.test(trimmed)
AllDigits(s) == (s.t = "int" /\ BigLE(BigZero, s.n)) \/ s.t = "huge"

\* mutant of parseRetryAfterToMs: a date that is not in the future is "no value"
parseRetryAfterToMs_PastDateNull(s, nowMs) ==
    IF AllDigits(s)
    THEN IF s.t = "int" /\ BigLE(BigZero, s.n) THEN Some(BigMul1000(s.n)) ELSE Null
    ELSE IF s.t = "date" /\ BigGT(s.n, nowMs) THEN Some(BigSub(s.n, nowMs)) ELSE Null

\* mutant of parseRetryAfterToMs: the Date.parse result is not tested for NaN,
\* so text that is no date yields "NaN > 0 ? delta : 0" = 0
parseRetryAfterToMs_NoFiniteCheck(s, nowMs) ==
    IF AllDigits(s)
    THEN IF s.t = "int" /\ BigLE(BigZero, s.n) THEN Some(BigMul1000(s.n)) ELSE Null
    ELSE IF s.t = "date" /\ BigGT(s.n, nowMs) THEN Some(BigSub(s.n, nowMs))
         ELSE Some(BigZero)

parseRetryAfterToMs(s, nowMs) ==
    IF AllDigits(s)
    THEN IF s.t = "int" /\ BigLE(BigZero, s.n) THEN Some(BigMul1000(s.n)) ELSE Null
    ELSE IF s.t = "date"
         THEN IF BigGT(s.n, nowMs) THEN Some(BigSub(s.n, nowMs)) ELSE Some(BigZero)
         ELSE Null

\* mutant of ResetKeys: the standard name is consulted first
ResetKeys_StandardFirst ==
    <<"ratelimit-reset", "x-ratelimit-reset", "x-hubspot-ratelimit-reset">>

ResetKeys == <<"x-ratelimit-reset", "x-hubspot-ratelimit-reset", "ratelimit-reset">>

RemainingKeys ==
    <<"x-ratelimit-remaining", "x-hubspot-ratelimit-remaining", "ratelimit-remaining">>

\* mutant of ResetMsThreshold: 10^9 in place of 10^12
ResetMsThreshold_Billion == Big(1000, 0)

\* 1_000_000_000_000, the seconds/milliseconds threshold of parseResetToWaitMs.
ResetMsThreshold == Big(BigBase, 0)

\* mutant of parseResetToWaitMs: a value up to 10^9 is a number of seconds to wait
parseResetToWaitMs_DeltaSeconds(h, nowMs) ==
    LET reset == firstPresentInt(h, ResetKeys)
    IN  IF ~reset.some THEN Null
        ELSE IF BigLE(reset.v, Big(1000, 0)) THEN Some(BigMul1000(reset.v))
        ELSE LET tsMs == IF BigGT(reset.v, ResetMsThreshold)
                         THEN reset.v ELSE BigMul1000(reset.v)
             IN  IF BigGT(tsMs, nowMs) THEN Some(BigSub(tsMs, nowMs)) ELSE Some(BigZero)

parseResetToWaitMs(h, nowMs) ==
    LET reset == firstPresentInt(h, ResetKeys)
    IN  IF ~reset.some THEN Null
        ELSE LET tsMs == IF BigGT(reset.v, ResetMsThreshold)
                         THEN reset.v ELSE BigMul1000(reset.v)
             IN  IF BigGT(tsMs, nowMs) THEN Some(BigSub(tsMs, nowMs)) ELSE Some(BigZero)

MAX_THROTTLE_WAIT_MS == 300000

\* cap = (ms) => Math.min(ms, MAX_THROTTLE_WAIT_MS); the result is small.
Cap(ms) == BigToInt(BigMin(ms, BigOf(MAX_THROTTLE_WAIT_MS)))

\* mutant of UsableWait: only the null check, a wait of 0 is accepted
UsableWait_AcceptsZero(ms) == ms.some

\* "ms !== null && ms > 0" of rules 1, 2 and 3.
UsableWait(ms) == ms.some /\ BigGT(ms.v, BigZero)

\* "remaining !== null && remaining <= 0" of rule 2.
QuotaExhausted(remaining) == remaining.some /\ BigLE(remaining.v, BigZero)

\* mutant of WaitFromNormalized: the reset rule is tried before retry-after
WaitFromNormalized_ResetFirst(h, defaultWaitMs, nowMs) ==
    LET ra      == IF Truthy(h, "retry-after")
                   THEN parseRetryAfterToMs(h["retry-after"], nowMs) ELSE Null
        resetMs == parseResetToWaitMs(h, nowMs)
    IN  IF UsableWait(resetMs) THEN Cap(resetMs.v)
        ELSE IF UsableWait(ra) THEN Cap(ra.v)
        ELSE Cap(BigOf(defaultWaitMs))

\* mutant of WaitFromNormalized: rule 1 only tests the retry-after wait for null
WaitFromNormalized_AnyRetryAfterWins(h, defaultWaitMs, nowMs) ==
    LET ra      == IF Truthy(h, "retry-after")
                   THEN parseRetryAfterToMs(h["retry-after"], nowMs) ELSE Null
        resetMs == parseResetToWaitMs(h, nowMs)
    IN  IF ra.some THEN Cap(ra.v)
        ELSE IF QuotaExhausted(firstPresentInt(h, RemainingKeys))
             THEN Cap(IF UsableWait(resetMs) THEN resetMs.v ELSE BigOf(defaultWaitMs))
        ELSE IF UsableWait(resetMs) THEN Cap(resetMs.v)
        ELSE Cap(BigOf(defaultWaitMs))

\* mutant of WaitFromNormalized: rule 2 ignores the reset header
WaitFromNormalized_ExhaustedUsesDefault(h, defaultWaitMs, nowMs) ==
    LET ra      == IF Truthy(h, "retry-after")
                   THEN parseRetryAfterToMs(h["retry-after"], nowMs) ELSE Null
        resetMs == parseResetToWaitMs(h, nowMs)
    IN  IF UsableWait(ra) THEN Cap(ra.v)
        ELSE IF QuotaExhausted(firstPresentInt(h, RemainingKeys))
             THEN Cap(BigOf(defaultWaitMs))
        ELSE IF UsableWait(resetMs) THEN Cap(resetMs.v)
        ELSE Cap(BigOf(defaultWaitMs))

\* mutant of WaitFromNormalized: the fallback of rule 4 is returned uncapped
WaitFromNormalized_UncappedDefault(h, defaultWaitMs, nowMs) ==
    LET ra      == IF Truthy(h, "retry-after")
                   THEN parseRetryAfterToMs(h["retry-after"], nowMs) ELSE Null
        resetMs == parseResetToWaitMs(h, nowMs)
    IN  IF UsableWait(ra) THEN Cap(ra.v)
        ELSE IF QuotaExhausted(firstPresentInt(h, RemainingKeys))
             THEN Cap(IF UsableWait(resetMs) THEN resetMs.v ELSE BigOf(defaultWaitMs))
        ELSE IF UsableWait(resetMs) THEN Cap(resetMs.v)
        ELSE defaultWaitMs

WaitFromNormalized(h, defaultWaitMs, nowMs) ==
    LET ra      == IF Truthy(h, "retry-after")
                   THEN parseRetryAfterToMs(h["retry-after"], nowMs) ELSE Null
        resetMs == parseResetToWaitMs(h, nowMs)
    IN  IF UsableWait(ra) THEN Cap(ra.v)
        ELSE IF QuotaExhausted(firstPresentInt(h, RemainingKeys))
             THEN Cap(IF UsableWait(resetMs) THEN resetMs.v ELSE BigOf(defaultWaitMs))
        ELSE IF UsableWait(resetMs) THEN Cap(resetMs.v)
        ELSE Cap(BigOf(defaultWaitMs))

computeWaitMs(rawHeaders, defaultWaitMs, nowMs) ==
    WaitFromNormalized(normalizeHeaders(rawHeaders), defaultWaitMs, nowMs)


(***************************************************************************)
(* applyJitter.  Math.random() * 2 - 1 lies in [-1, 1); the draw is        *)
(* modelled as r / JitterSteps with r in -JitterSteps .. JitterSteps - 1.  *)
(* To stay exact in integers the result is given in ticks of               *)
(* 1 / JitterScale milliseconds.                                           *)
(***************************************************************************)
JitterSteps == 2

JitterScale == 100 * JitterSteps

JitterDraws == (0 - JitterSteps) .. (JitterSteps - 1)

\* mutant of ClampPct: the percentage is used as given
ClampPct_Unclamped(jitterPct) == jitterPct

\* Math.max(0, Math.min(100, jitterPct))
ClampPct(jitterPct) == Max(0, Min(100, jitterPct))

\* Math.max(0, baseMs + jitter), in ticks
applyJitter(baseMs, jitterPct, r) ==
    Max(0, baseMs * JitterScale + r * baseMs * ClampPct(jitterPct))

Ticks(ms) == ms * JitterScale

(***************************************************************************)
(* Bounds and input domains of the driver model.                           *)
(***************************************************************************)
\* largest value of the maxThrottleTries node parameter that is explored
MaxTriesParam == 3

\* largest number of input items handed to fallbackExecute
NumItems == 2

Statuses == {200, 429, 503}

\* String(statusCode)
StatusStr(s) ==
    CASE s = 200 -> "200" [] s = 429 -> "429" [] s = 503 -> "503"
      [] s = 404 -> "404" [] s = 500 -> "500" [] s = 504 -> "504"
      [] OTHER -> "0"

CodeChoices == {{"429"}, {"429", "503"}}

DefaultWaitChoices == {5000}

JitterChoices == {0, 25}

\* the epoch-millisecond clock value Date.now() returns
NowMs == Big(1700000, 0)

NowChoices == {NowMs}

\* a response whose rate-limit headers are all unusable
MalformedHeaders ==
    <<Entry("Retry-After", Single(GarbageStr)),
      Entry("X-RateLimit-Remaining", Single(IntStr(0 - 1))),
      Entry("X-RateLimit-Reset", Single(EmptyStr))>>

\* a response whose limit window ends three milliseconds from now
SoonResetHeaders ==
    <<Entry("X-RateLimit-Reset", Single(Str("int", Big(NowMs.hi, NowMs.lo + 3))))>>

RespHeaderChoices ==
    {<<>>, <<Entry("Retry-After", Single(IntStr(300)))>>, MalformedHeaders, SoonResetHeaders}

ParamChoices ==
    [throttleCodes : CodeChoices, defaultWaitMs : DefaultWaitChoices,
     jitterPercent : JitterChoices, maxThrottleTries : (0 - 1) .. MaxTriesParam]

\* what one call of the underlying n8n helper can do when HTTP status errors
\* are ignored: deliver a response, or throw (connection, DNS, TLS ...)
ExecOutcomes ==
    [type : {"response"}, status : Statuses, headers : RespHeaderChoices, err : {""}]
    \cup
    [type : {"throw"}, status : {0}, headers : {<<>>}, err : {"NodeApiError", "Error"}]

VARIABLES
    path,              \* "v3" when getV3Ref() finds the built-in node, else "fallback"
    throttlingEnabled, \* node parameter throttlingEnabled
    continueOnFail,    \* this.continueOnFail()
    params,            \* node parameter "throttling"
    now,               \* Date.now()
    reqs,              \* logical requests: wrapped helper calls (v3) or items (fallback)
    opts,              \* per request: the arguments of the caller's helper call
    execState,         \* "idle", "running", "returned", "thrown"
    wrapped,           \* helpers replaced by wrapHelpersWithThrottling
    pc,                \* per request: "pending", "ready", "sleeping", "reissue", "done"
    attempt,           \* per request: attempt (throttledCall) / throttleAttempt (fallback)
    hist,              \* per request: status of every executor call made (0: it threw)
    sent,              \* per request: the arguments of every executor call made
    response,          \* per request: the throttled response whose wait is in progress
    log,               \* per request: the lines written with logger.info
    sleeps,            \* per request: number of sleeps started
    wait,              \* per request: duration of the sleep in progress, in ticks
    outcome,           \* per request: what reached the caller
    itemIndex,         \* fallbackExecute: current item (1-based)
    returnData,        \* fallbackExecute: entries pushed so far
    wIn,               \* pure-function harness: inputs
    wOut               \* pure-function harness: result

vars == <<path, throttlingEnabled, continueOnFail, params, now, reqs, opts, execState,
          wrapped, pc, attempt, hist, sent, response, log, sleeps, wait, outcome,
          itemIndex,
          returnData, wIn, wOut>>

envVars == <<path, throttlingEnabled, continueOnFail, params, now, reqs, opts>>

\* envVars without the callers' request options
cfgVars == <<path, throttlingEnabled, continueOnFail, params, now, reqs>>

harnessVars == <<wIn, wOut>>

NoOutcome == [kind |-> "none", status |-> 0, limit |-> 0, full |-> FALSE, err |-> ""]

Outcome(k, s, l, f, e) == [kind |-> k, status |-> s, limit |-> l, full |-> f, err |-> e]

\* Math.round of a non-negative duration given in ticks: to the nearest
\* millisecond, halves upwards
RoundMs(ticks) == (2 * ticks + JitterScale) \div (2 * JitterScale)

\* one "[Throttling] Status S, attempt A/M, waiting Wms" line, without its wait
LogLine(status, att, max) == [status |-> status, attempt |-> att, max |-> max]

\* the log of one request: its lines in order, and the wait printed in the
\* latest line for as long as the sleep announced by that line lasts
NoLog == [lines |-> <<>>, waitMs |-> 0]

LogInfo(l, line, ticks) == [lines |-> Append(l.lines, line), waitMs |-> RoundMs(ticks)]

SleepOver(l) == [l EXCEPT !.waitMs = 0]

\* mutant of LoggedAttempt: the zero-based loop counter is printed
LoggedAttempt_ZeroBased(att) == att

\* "attempt ${attempt + 1}" in the log line of throttledCall
LoggedAttempt(att) == att + 1

\* "response" inside one pass of the retry loop (only its headers are kept)
NoResponse == [got |-> FALSE, headers |-> <<>>]

GotResponse(h) == [got |-> TRUE, headers |-> h]

NoInput == [raw |-> <<>>, dflt |-> 0]

NoOutput == [done |-> FALSE, res |-> 0]

\* mutant of readThrottleConfig: maxThrottleTries is taken as given
readThrottleConfig_Unclamped(p) ==
    [codes |-> p.throttleCodes,
     defaultWaitMs |-> p.defaultWaitMs,
     jitterPercent |-> p.jitterPercent,
     maxRetries |-> p.maxThrottleTries]

\* readThrottleConfig, and the same four lines at the top of fallbackExecute's loop
readThrottleConfig(p) ==
    [codes |-> p.throttleCodes,
     defaultWaitMs |-> p.defaultWaitMs,
     jitterPercent |-> p.jitterPercent,
     maxRetries |-> Max(1, p.maxThrottleTries)]

config == readThrottleConfig(params)

\* config.codes.has(String(statusCode))
IsThrottleCode(codes, status) == StatusStr(status) \in codes

Calls(r) == Len(hist[r])

(***************************************************************************)
(* Initial states: a node execution that has not started.  The caller's    *)
(* option flags matter only on the v3 path; fallbackExecute always asks    *)
(* for the full response with status errors ignored.                       *)
(***************************************************************************)
\* credentialsType (with additionalCredentialOptions) of a call of
\* httpRequestWithAuthentication; "none" stands for a call of httpRequest
CredChoices == {"none", "oAuth2Api"}

\* The arguments of one helper call: the request options (the two flags the
\* wrapper looks at, everything else as payload) and the credentials.
OptChoices(p) ==
    IF p = "v3"
    THEN [wantFull : BOOLEAN, wantIgnore : BOOLEAN, payload : {"POST /orders"},
          cred : CredChoices]
    ELSE {[wantFull |-> TRUE, wantIgnore |-> TRUE, payload |-> "POST /orders",
           cred |-> "none"]}

InitDriverState ==
    /\ execState = "idle"
    /\ wrapped = FALSE
    /\ pc = [r \in reqs |-> "pending"]
    /\ attempt = [r \in reqs |-> 0]
    /\ hist = [r \in reqs |-> <<>>]
    /\ sent = [r \in reqs |-> <<>>]
    /\ response = [r \in reqs |-> NoResponse]
    /\ log = [r \in reqs |-> NoLog]
    /\ sleeps = [r \in reqs |-> 0]
    /\ wait = [r \in reqs |-> 0]
    /\ outcome = [r \in reqs |-> NoOutcome]
    /\ itemIndex = 1
    /\ returnData = <<>>

Init ==
    /\ path \in {"v3", "fallback"}
    /\ throttlingEnabled \in BOOLEAN
    /\ continueOnFail \in (IF path = "fallback" THEN BOOLEAN ELSE {FALSE})
    /\ params \in ParamChoices
    /\ now \in NowChoices
    /\ reqs \in (IF path = "v3" THEN {{1}} ELSE {1 .. n : n \in 0 .. NumItems})
    /\ opts \in [reqs -> OptChoices(path)]
    /\ InitDriverState
    /\ wIn = NoInput
    /\ wOut = NoOutput

(***************************************************************************)
(* HttpRequestThrottled.execute                                            *)
(***************************************************************************)
Execute ==
    /\ execState = "idle"
    /\ IF path = "v3"
       THEN /\ wrapped' = throttlingEnabled
            /\ pc' = [r \in reqs |-> "ready"]
            /\ execState' = "running"
       ELSE /\ wrapped' = FALSE
            /\ pc' = [r \in reqs |-> IF r = 1 THEN "ready" ELSE "pending"]
            /\ execState' = IF reqs = {} THEN "returned" ELSE "running"
    /\ UNCHANGED <<envVars, harnessVars, attempt, hist, sent, sleeps, wait, response, log,
                   outcome, itemIndex, returnData>>

(***************************************************************************)
(* throttle-wrapper.ts: throttledCall                                      *)
(***************************************************************************)
\* "attempt >= config.maxRetries" before the throw
RetriesExhausted(att, maxRetries) == att >= maxRetries

\* "attempt <= config.maxRetries", the loop condition
LoopContinues(att, maxRetries) == att <= maxRetries

\* mutant of PatchedOptions: only returnFullResponse is forced
PatchedOptions_FullOnly(o) == [o EXCEPT !.wantFull = TRUE]

\* patchedOptions: the caller's options with both flags forced to true
PatchedOptions(o) == [o EXCEPT !.wantFull = TRUE, !.wantIgnore = TRUE]

\* mutant of OriginalAfterPatch: the flags are assigned on the caller's object
OriginalAfterPatch_InPlace(o) == PatchedOptions(o)

\* the caller's request-options object once patchedOptions has been built:
\* the spread copies it, the object itself is left as it was
OriginalAfterPatch(o) == o

\* doRequest(o) of a wrapped helper: the original helper is called with the
\* options o and, for httpRequestWithAuthentication, with the credentials
\* arguments of the caller's call
DoRequestArgs(callerArgs, o) == [o EXCEPT !.cred = callerArgs.cred]

\* mutant of MustRethrow: the caller's ignoreHttpStatusErrors is not looked at
MustRethrow_IgnoresFlag(o, status) == status >= 400

\* "!wantIgnoreErrors && statusCode >= 400"
MustRethrow(o, status) == ~o.wantIgnore /\ status >= 400

\* The underlying helper called with the caller's own options: it throws an
\* HTTP error for a status >= 400 unless ignoreHttpStatusErrors is set, and
\* returns the body, or the full response when returnFullResponse is set.
OriginalHelperResult(o, x) ==
    IF x.type = "throw" THEN Outcome("transport", 0, 0, FALSE, x.err)
    ELSE IF ~o.wantIgnore /\ x.status >= 400
         THEN Outcome("httpError", x.status, 0, FALSE, "NodeApiError")
         ELSE Outcome("data", x.status, 0, o.wantFull, "")

\* mutants of BumpAttempt: the increment is missing; one counter is shared by
\* all requests
BumpAttempt_Missing(att, r) == att

BumpAttempt_Shared(att, r) == [q \in DOMAIN att |-> att[q] + 1]

\* "attempt++" / "throttleAttempt++" on the counter of request r, a variable
\* local to one throttledCall invocation or to one iteration of the item loop
BumpAttempt(att, r) == [att EXCEPT ![r] = @ + 1]

\* mutant of SleepYields: the wait is a synchronous busy loop
SleepYields_Blocking == FALSE

\* sleep() returns a promise resolved by setTimeout and is awaited, so the
\* single JavaScript thread is free while a call is waiting
SleepYields == TRUE

\* request r can take its next step: no other request holds the thread
CanStep(r) == SleepYields \/ \A q \in reqs \ {r} : pc[q] # "sleeping"

\* mutant of BaseWait: the wait grows with the attempt number
BaseWait_Backoff(headers, cfg, att, nowMs) ==
    Min(MAX_THROTTLE_WAIT_MS, computeWaitMs(headers, cfg.defaultWaitMs, nowMs) * (att + 1))

\* "const baseWait = computeWaitMs(headers, defaultWaitMs)" in both drivers;
\* the attempt counter is in scope there and is not used
BaseWait(headers, cfg, att, nowMs) == computeWaitMs(headers, cfg.defaultWaitMs, nowMs)

Finish(r, out) ==
    /\ pc' = [pc EXCEPT ![r] = "done"]
    /\ outcome' = [outcome EXCEPT ![r] = out]

ThrottledCallAttempt(r) ==
    /\ path = "v3" /\ wrapped /\ pc[r] = "ready"
    /\ CanStep(r)
    /\ sent' = [sent EXCEPT ![r] = Append(@, DoRequestArgs(opts[r], PatchedOptions(opts[r])))]
    /\ opts' = [opts EXCEPT ![r] = OriginalAfterPatch(@)]
    /\ \E x \in ExecOutcomes, d \in JitterDraws :
         /\ hist' = [hist EXCEPT ![r] = Append(@, x.status)]
         /\ IF x.type = "throw"
            THEN /\ Finish(r, Outcome("transport", 0, 0, FALSE, x.err))
                 /\ UNCHANGED <<sleeps, wait, response, log>>
            ELSE IF IsThrottleCode(config.codes, x.status)
            THEN IF RetriesExhausted(attempt[r], config.maxRetries)
                 THEN /\ Finish(r, Outcome("maxRetries", x.status, config.maxRetries,
                                           FALSE, "NodeOperationError"))
                      /\ UNCHANGED <<sleeps, wait, response, log>>
                 ELSE /\ wait' = [wait EXCEPT ![r] =
                              applyJitter(BaseWait(x.headers, config, attempt[r], now),
                                          config.jitterPercent, d)]
                      /\ response' = [response EXCEPT ![r] = GotResponse(x.headers)]
                      /\ log' = [log EXCEPT ![r] =
                             LogInfo(@, LogLine(x.status, LoggedAttempt(attempt[r]),
                                                config.maxRetries), wait'[r])]
                      /\ sleeps' = [sleeps EXCEPT ![r] = @ + 1]
                      /\ pc' = [pc EXCEPT ![r] = "sleeping"]
                      /\ UNCHANGED outcome
            ELSE IF MustRethrow(opts[r], x.status)
            THEN /\ pc' = [pc EXCEPT ![r] = "reissue"]
                 /\ UNCHANGED <<sleeps, wait, response, log, outcome>>
            ELSE /\ Finish(r, Outcome("data", x.status, 0, opts[r].wantFull, ""))
                 /\ UNCHANGED <<sleeps, wait, response, log>>
    /\ UNCHANGED <<cfgVars, harnessVars, execState, wrapped, attempt, itemIndex, returnData>>

\* the sleep resolves; "continue" runs attempt++ and the loop condition
ThrottledCallWake(r) ==
    /\ path = "v3" /\ pc[r] = "sleeping"
    /\ CanStep(r)
    /\ attempt' = BumpAttempt(attempt, r)
    /\ wait' = [wait EXCEPT ![r] = 0]
    /\ response' = [response EXCEPT ![r] = NoResponse]
    /\ log' = [log EXCEPT ![r] = SleepOver(@)]
    /\ IF LoopContinues(attempt'[r], config.maxRetries)
       THEN pc' = [pc EXCEPT ![r] = "ready"] /\ UNCHANGED outcome
       ELSE Finish(r, Outcome("data", 0, 0, FALSE, "undefined"))
    /\ UNCHANGED <<envVars, harnessVars, execState, wrapped, hist, sent, sleeps, itemIndex,
                   returnData>>

\* "return doRequest(requestOptions)": the request is issued once more, now
\* with the caller's options
ThrottledCallReissue(r) ==
    /\ path = "v3" /\ pc[r] = "reissue"
    /\ CanStep(r)
    /\ sent' = [sent EXCEPT ![r] = Append(@, DoRequestArgs(opts[r], opts[r]))]
    /\ \E x \in ExecOutcomes :
         /\ hist' = [hist EXCEPT ![r] = Append(@, x.status)]
         /\ Finish(r, OriginalHelperResult(opts[r], x))
    /\ UNCHANGED <<envVars, harnessVars, execState, wrapped, attempt, sleeps, wait, response, log,
                   itemIndex, returnData>>

\* throttlingEnabled = false on the v3 path: the helpers are not wrapped
UnwrappedCall(r) ==
    /\ path = "v3" /\ ~wrapped /\ pc[r] = "ready"
    /\ CanStep(r)
    /\ sent' = [sent EXCEPT ![r] = Append(@, opts[r])]
    /\ \E x \in ExecOutcomes :
         /\ hist' = [hist EXCEPT ![r] = Append(@, x.status)]
         /\ Finish(r, OriginalHelperResult(opts[r], x))
    /\ UNCHANGED <<envVars, harnessVars, execState, wrapped, attempt, sleeps, wait, response, log,
                   itemIndex, returnData>>

(***************************************************************************)
(* HttpRequestThrottled.node.ts: fallbackExecute                           *)
(***************************************************************************)
\* the parameters read at the top of the item loop: the "throttling"
\* collection when throttling is enabled, otherwise {} and hence the defaults
FallbackConfig ==
    IF throttlingEnabled THEN readThrottleConfig(params)
    ELSE [codes |-> {"429"}, defaultWaitMs |-> 5000, jitterPercent |-> 25,
          maxRetries |-> Max(1, 5)]

\* mutants of TriesExhausted: the comparison off by one in either direction
TriesExhausted_Strict(throttleAttempt, maxThrottleTries) ==
    throttleAttempt > maxThrottleTries

TriesExhausted_Early(throttleAttempt, maxThrottleTries) ==
    throttleAttempt >= maxThrottleTries - 1

\* "throttleAttempt >= maxThrottleTries", evaluated after throttleAttempt++
TriesExhausted(throttleAttempt, maxThrottleTries) == throttleAttempt >= maxThrottleTries

\* mutant of FallbackIsThrottled: every error status counts as throttled
FallbackIsThrottled_AnyError(status) == throttlingEnabled /\ status >= 400

\* mutant of FallbackIsThrottled: the throttlingEnabled switch is not consulted
FallbackIsThrottled_IgnoresSwitch(status) == IsThrottleCode(FallbackConfig.codes, status)

\* "throttlingEnabled && throttleCodes.has(statusStr)"
FallbackIsThrottled(status) ==
    throttlingEnabled /\ IsThrottleCode(FallbackConfig.codes, status)

\* mutant of CaughtError: the failure is swallowed and reported as a result
CaughtError_Swallowed(err) == Outcome("data", 0, 0, FALSE, "")

\* the catch block around the helper call
CaughtError(err) ==
    IF err = "NodeApiError"
    THEN Outcome("transport", 0, 0, FALSE, "NodeApiError")
    ELSE Outcome("transport", 0, 0, FALSE, "NetworkError")

\* mutant of ItemEntry: every entry is paired to the first item
ItemEntry_FirstItem(i, k, s) == [item |-> 1, kind |-> k, status |-> s]

\* an entry of returnData: its json (result or error) and "pairedItem: { item: itemIndex }"
ItemEntry(i, k, s) == [item |-> i, kind |-> k, status |-> s]

\* "throw": the whole execution ends, no later item is started
FallbackThrow(i, out) ==
    /\ Finish(i, out)
    /\ execState' = "thrown"
    /\ UNCHANGED <<itemIndex, returnData>>

\* returnData.push(...); break; then itemIndex++ and the loop condition
FallbackPush(i, out, entry) ==
    /\ returnData' = Append(returnData, entry)
    /\ outcome' = [outcome EXCEPT ![i] = out]
    /\ itemIndex' = i + 1
    /\ IF i + 1 \in reqs
       THEN /\ pc' = [pc EXCEPT ![i] = "done", ![i + 1] = "ready"]
            /\ UNCHANGED execState
       ELSE /\ pc' = [pc EXCEPT ![i] = "done"]
            /\ execState' = "returned"

\* mutant of AwaitSleep: the sleep is started and not awaited, the item loop
\* goes on with the next item
AwaitSleep_NotAwaited(i) ==
    IF i + 1 \in reqs
    THEN pc' = [pc EXCEPT ![i] = "sleeping", ![i + 1] = "ready"] /\ itemIndex' = i + 1
    ELSE pc' = [pc EXCEPT ![i] = "sleeping"] /\ UNCHANGED itemIndex

\* "await sleep(wait)" inside the item loop: fallbackExecute is suspended at
\* item i until the timer fires
AwaitSleep(i) == pc' = [pc EXCEPT ![i] = "sleeping"] /\ UNCHANGED itemIndex

\* mutant of OnTriesExhausted: the exhausted item is handled like an HTTP error
OnTriesExhausted_PerItem(i, status, c) ==
    IF continueOnFail
    THEN FallbackPush(i, Outcome("errorEntry", status, 0, FALSE, ""),
                      ItemEntry(i, "error", status))
    ELSE FallbackThrow(i, Outcome("maxRetries", status, c.maxRetries, FALSE,
                                  "NodeOperationError"))

\* "throw new NodeOperationError(... max retries ... exceeded ...)": thrown
\* outside any try block and without a look at continueOnFail()
OnTriesExhausted(i, status, c) ==
    FallbackThrow(i, Outcome("maxRetries", status, c.maxRetries, FALSE,
                             "NodeOperationError"))

FallbackAttempt ==
    /\ path = "fallback" /\ execState = "running"
    /\ itemIndex \in reqs /\ pc[itemIndex] = "ready"
    /\ LET i == itemIndex
           c == FallbackConfig
       IN  \E x \in ExecOutcomes, d \in JitterDraws :
             /\ hist' = [hist EXCEPT ![i] = Append(@, x.status)]
             /\ sent' = [sent EXCEPT ![i] = Append(@, opts[i])]
             /\ IF x.type = "throw"
                THEN /\ FallbackThrow(i, CaughtError(x.err))
                     /\ UNCHANGED <<attempt, sleeps, wait, response, log>>
                ELSE IF FallbackIsThrottled(x.status)
                THEN /\ attempt' = BumpAttempt(attempt, i)
                     /\ IF TriesExhausted(attempt'[i], c.maxRetries)
                        THEN /\ OnTriesExhausted(i, x.status, c)
                             /\ UNCHANGED <<sleeps, wait, response, log>>
                        ELSE /\ wait' = [wait EXCEPT ![i] =
                                     applyJitter(BaseWait(x.headers, c, attempt'[i], now),
                                                 c.jitterPercent, d)]
                             /\ response' = [response EXCEPT ![i] = GotResponse(x.headers)]
                             /\ log' = [log EXCEPT ![i] =
                                    LogInfo(@, LogLine(x.status, attempt'[i],
                                                       c.maxRetries), wait'[i])]
                             /\ sleeps' = [sleeps EXCEPT ![i] = @ + 1]
                             /\ AwaitSleep(i)
                             /\ UNCHANGED <<outcome, execState, returnData>>
                ELSE IF x.status >= 400
                THEN /\ IF continueOnFail
                        THEN FallbackPush(i, Outcome("errorEntry", x.status, 0, FALSE, ""),
                                          ItemEntry(i, "error", x.status))
                        ELSE FallbackThrow(i, Outcome("httpError", x.status, 0, FALSE,
                                                      "NodeOperationError"))
                     /\ UNCHANGED <<attempt, sleeps, wait, response, log>>
                ELSE /\ FallbackPush(i, Outcome("data", x.status, 0, FALSE, ""),
                                     ItemEntry(i, "data", x.status))
                     /\ UNCHANGED <<attempt, sleeps, wait, response, log>>
    /\ UNCHANGED <<envVars, harnessVars, wrapped>>

\* the sleep resolves; "continue" goes back to the top of while (true)
FallbackWake ==
    /\ path = "fallback" /\ execState = "running"
    /\ itemIndex \in reqs /\ pc[itemIndex] = "sleeping"
    /\ pc' = [pc EXCEPT ![itemIndex] = "ready"]
    /\ wait' = [wait EXCEPT ![itemIndex] = 0]
    /\ response' = [response EXCEPT ![itemIndex] = NoResponse]
    /\ log' = [log EXCEPT ![itemIndex] = SleepOver(@)]
    /\ UNCHANGED <<envVars, harnessVars, execState, wrapped, attempt, hist, sent, sleeps,
                   outcome, itemIndex, returnData>>

Next ==
    \/ Execute
    \/ \E r \in reqs : ThrottledCallAttempt(r)
    \/ \E r \in reqs : ThrottledCallWake(r)
    \/ \E r \in reqs : ThrottledCallReissue(r)
    \/ \E r \in reqs : UnwrappedCall(r)
    \/ FallbackAttempt
    \/ FallbackWake

Spec == Init /\ [][Next]_vars

\* Every executor call and every sleep completes: a driver step that stays
\* possible is eventually taken (a pending promise resolves or rejects).
Fairness ==
    /\ \A r \in 1 .. NumItems :
         /\ WF_vars(r \in reqs /\ ThrottledCallAttempt(r))
         /\ WF_vars(r \in reqs /\ ThrottledCallWake(r))
         /\ WF_vars(r \in reqs /\ ThrottledCallReissue(r))
         /\ WF_vars(r \in reqs /\ UnwrappedCall(r))
    /\ WF_vars(FallbackAttempt)
    /\ WF_vars(FallbackWake)

SpecLive == Init /\ [][Next]_vars /\ Fairness

(***************************************************************************)
(* Concurrent helper calls.  The built-in node may have several wrapped    *)
(* helper calls pending at once (each throttledCall is an async function); *)
(* here the v3 path runs two of them, interleaved in every order.  The two *)
(* calls carry the same arguments (calls of httpRequest); the throttle set *)
(* is {429}, the jitter percentage is 0 and maxThrottleTries is at least   *)
(* 1, which keeps the interleavings apart from the choices that do not     *)
(* bear on them.                                                           *)
(***************************************************************************)
ConcReqs == {1, 2}

ConcInit ==
    /\ path \in {"v3", "fallback"}
    /\ throttlingEnabled \in BOOLEAN
    /\ continueOnFail \in (IF path = "fallback" THEN BOOLEAN ELSE {FALSE})
    /\ params \in {p \in ParamChoices : /\ p.jitterPercent = 0
                                         /\ p.maxThrottleTries >= 1
                                         /\ p.throttleCodes = {"429"}}
    /\ now \in NowChoices
    /\ reqs \in (IF path = "v3" THEN {ConcReqs} ELSE {1 .. n : n \in 0 .. NumItems})
    /\ opts \in {o \in [reqs -> OptChoices(path)] :
                   \A r, q \in reqs : o[r] = o[q] /\ o[r].cred = "none"}
    /\ InitDriverState
    /\ wIn = NoInput
    /\ wOut = NoOutput

SpecConc == ConcInit /\ [][Next]_vars

(***************************************************************************)
(* Harness for the pure functions of throttling.ts: the initial state      *)
(* draws a raw header map and a default wait, ComputeWait applies          *)
(* computeWaitMs to them at the clock value now.                           *)
(***************************************************************************)
PastDate == DateStr(Big(1699999, 995000))

PresentDate == DateStr(NowMs)

FutureDate == DateStr(Big(1700000, 10000))

FarFutureDate == DateStr(Big(1700000, 400000))

\* epoch seconds 10 s after / before NowMs
FutureResetSec == Str("int", Big(1700, 10))

PastResetSec == Str("int", Big(1699, 999990))

RetryAfterStrings ==
    {IntStr(0), IntStr(3), IntStr(300), IntStr(999999), HugeStr, PastDate, PresentDate,
     FutureDate, FarFutureDate, GarbageStr, EmptyStr}

RetryAfterInputs ==
    {<<>>} \cup {<<Entry("Retry-After", Single(v))>> : v \in RetryAfterStrings}
           \cup {<<Entry("RETRY-AFTER", Single(IntStr(3)))>>,
                 <<Entry("Retry-After", Repeated(<<>>))>>,
                 <<Entry("Retry-After", Single(IntStr(3))),
                   Entry("retry-after", Single(IntStr(5)))>>}
           \cup {<<Entry("retry-after", Single(IntStr(3)))>>,
                 <<Entry("retry-after", Repeated(<<IntStr(5), IntStr(10)>>))>>,
                 <<Entry("Retry-After", NullValue)>>}

RemainingInputs ==
    {<<>>} \cup {<<Entry("X-RateLimit-Remaining", Single(IntStr(n)))>> : n \in {0, 5}}
           \cup {<<Entry("X-HubSpot-RateLimit-Remaining", Single(IntStr(0)))>>}
           \cup {<<Entry("X-RateLimit-Remaining", Single(IntStr(5))),
                   Entry("RateLimit-Remaining", Single(IntStr(0)))>>,
                 <<Entry("X-RateLimit-Remaining", Single(GarbageStr)),
                   Entry("X-HubSpot-RateLimit-Remaining", Single(IntStr(0)))>>,
                 <<Entry("X-RateLimit-Remaining", Single(EmptyStr)),
                   Entry("RateLimit-Remaining", Single(IntStr(0 - 1)))>>,
                 <<Entry("RateLimit-Remaining", Single(IntStr(0))),
                   Entry("X-HubSpot-RateLimit-Remaining", Single(PrefixStr(5)))>>}

\* reset values given in epoch milliseconds (above the 10^12 threshold)
FutureResetMs == Str("int", Big(1700000, 5000))

PastResetMs == Str("int", Big(1699999, 0))

\* the value 10^12 itself, which is still read as epoch seconds
ThresholdReset == Str("int", Big(BigBase, 0))

\* a reset header holding a number of seconds to wait instead of a timestamp
DeltaReset == IntStr(30)

\* the reset value 10^9
BillionReset == Str("int", Big(1000, 0))

ResetInputs ==
    {<<>>} \cup {<<Entry("X-RateLimit-Reset", Single(v))>> :
                    v \in {FutureResetSec, PastResetSec, FutureResetMs, PastResetMs,
                           ThresholdReset, DeltaReset, BillionReset}}
           \cup {<<Entry("X-HubSpot-RateLimit-Reset", Single(FutureResetSec))>>}
           \cup {<<Entry("RateLimit-Reset", Single(FutureResetSec))>>,
                 <<Entry("X-RateLimit-Reset", Single(GarbageStr)),
                   Entry("RateLimit-Reset", Single(FutureResetSec))>>,
                 <<Entry("RateLimit-Reset", Single(FutureResetMs)),
                   Entry("X-HubSpot-RateLimit-Reset", Single(FutureResetSec))>>}

HeaderInputs ==
    {ra \o rem \o rs : ra \in RetryAfterInputs, rem \in RemainingInputs, rs \in ResetInputs}

DefaultInputs == {0 - 5, 0, 5000, 400000}

WaitInit ==
    /\ path = "v3"
    /\ throttlingEnabled = TRUE
    /\ continueOnFail = FALSE
    /\ params \in {p \in ParamChoices : p.maxThrottleTries = 0 /\ p.jitterPercent = 0
                                         /\ p.throttleCodes = {"429"}}
    /\ now = NowMs
    /\ reqs = {}
    /\ opts = <<>>
    /\ InitDriverState
    /\ wIn \in [raw : HeaderInputs, dflt : DefaultInputs]
    /\ wOut = NoOutput

ComputeWait ==
    /\ ~wOut.done
    /\ wOut' = [done |-> TRUE, res |-> computeWaitMs(wIn.raw, wIn.dflt, now)]
    /\ UNCHANGED <<envVars, execState, wrapped, pc, attempt, hist, sent, sleeps, wait,
                   response, log, outcome, itemIndex, returnData, wIn>>

NextWait == ComputeWait

SpecWait == WaitInit /\ [][NextWait]_vars

(***************************************************************************)
(* Harness for applyJitter: one call on a base wait, a jitter percentage   *)
(* and a random draw.                                                      *)
(***************************************************************************)
BaseInputs == {0, 1, 3, 1000, 5000, MAX_THROTTLE_WAIT_MS}

PctInputs == {0 - 10, 0, 25, 100, 150}

JitterInit ==
    /\ path = "v3"
    /\ throttlingEnabled = TRUE
    /\ continueOnFail = FALSE
    /\ params \in {p \in ParamChoices : p.maxThrottleTries = 0 /\ p.jitterPercent = 0
                                         /\ p.throttleCodes = {"429"}}
    /\ now = NowMs
    /\ reqs = {}
    /\ opts = <<>>
    /\ InitDriverState
    /\ wIn \in [base : BaseInputs, pct : PctInputs, r : JitterDraws]
    /\ wOut = NoOutput

ApplyJitter ==
    /\ ~wOut.done
    /\ wOut' = [done |-> TRUE, res |-> applyJitter(wIn.base, wIn.pct, wIn.r)]
    /\ UNCHANGED <<envVars, execState, wrapped, pc, attempt, hist, sent, sleeps, wait,
                   response, log, outcome, itemIndex, returnData, wIn>>

NextJitter == ApplyJitter

SpecJitter == JitterInit /\ [][NextJitter]_vars

(***************************************************************************)
(* Properties.                                                             *)
(***************************************************************************)
\* the configured throttle set and retry limit, read from the node parameters
ThrottleSet == params.throttleCodes

Limit == IF params.maxThrottleTries < 1 THEN 1 ELSE params.maxThrottleTries

IsThr(s) == s # 0 /\ StatusStr(s) \in ThrottleSet

\* every executor call of request r so far returned a throttle status
AllThrottled(r) == \A j \in 1 .. Len(hist[r]) : IsThr(hist[r][j])

\* the first j - 1 executor calls returned a throttle status
ThrottledBefore(r, j) == \A q \in 1 .. (j - 1) : IsThr(hist[r][q])

LastStatus(r) == hist[r][Len(hist[r])]

ExhaustedAt(r, n) ==
    /\ pc[r] = "done"
    /\ Calls(r) = n
    /\ sleeps[r] = n - 1
    /\ wait[r] = 0
    /\ outcome[r] = Outcome("maxRetries", LastStatus(r), Limit, FALSE, "NodeOperationError")

\* C1 (as claimed): on the v3 path with throttling enabled, a request whose
\* executor responses are all throttled never gets past maxRetries executor
\* calls, and at the maxRetries-th throttled response it has slept
\* maxRetries - 1 times and ends with the max-retries-exceeded error naming
\* that status and the limit.
C1_ExactlyMaxRetriesCalls ==
    (path = "v3" /\ wrapped) =>
        \A r \in reqs :
            (AllThrottled(r) /\ Calls(r) >= Limit) => ExhaustedAt(r, Limit)

C3_SuccessAfterKThrottles ==
    throttlingEnabled =>
        \A r \in reqs :
            /\ \A j \in 1 .. Len(hist[r]) :
                   (/\ ThrottledBefore(r, j)
                    /\ j - 1 < Limit
                    /\ hist[r][j] # 0 /\ hist[r][j] < 400 /\ ~IsThr(hist[r][j]))
                   => /\ Len(hist[r]) = j
                      /\ pc[r] = "done"
                      /\ sleeps[r] = j - 1
                      /\ wait[r] = 0
                      /\ outcome[r].kind = "data"
                      /\ outcome[r].status = hist[r][j]
            /\ (AllThrottled(r) /\ Calls(r) < Limit /\ execState # "idle")
                   => /\ outcome[r].kind = "none"
                      /\ sleeps[r] = Calls(r)
                      /\ pc[r] \in {"pending", "ready", "sleeping"}

C3_Witness ==
    /\ path = "v3" /\ wrapped /\ Limit = 3
    /\ \E r \in reqs :
         /\ hist[r] = <<429, 429, 200>>
         /\ pc[r] = "done" /\ sleeps[r] = 2
         /\ outcome[r].kind = "data" /\ outcome[r].status = 200

\* C4 (as claimed): in throttledCall, when the first response has a status
\* >= 400 outside the throttle set and the caller did not set
\* ignoreHttpStatusErrors, the request makes exactly one executor call, never
\* sleeps, and ends with an HTTP error for that response.
C4_SingleCallOnHttpError ==
    (path = "v3" /\ wrapped) =>
        \A r \in reqs :
            (/\ Len(hist[r]) >= 1
             /\ hist[r][1] >= 400 /\ ~IsThr(hist[r][1])
             /\ ~opts[r].wantIgnore)
            => /\ Calls(r) = 1
               /\ sleeps[r] = 0
               /\ pc[r] = "done" =>
                      /\ outcome[r].kind = "httpError"
                      /\ outcome[r].status = hist[r][1]

\* C5: in both drivers, an executor call that throws is the last executor
\* call of its request, no sleep follows it (each sleep follows a response
\* that came before the failure), and the request ends with the error; in
\* fallbackExecute the execution is thrown and no later item is started.
C5_TransportErrorEndsRequest ==
    \A r \in reqs :
        \A j \in 1 .. Len(hist[r]) :
            hist[r][j] = 0 =>
                /\ j = Len(hist[r])
                /\ pc[r] = "done"
                /\ wait[r] = 0
                /\ sleeps[r] <= j - 1
                /\ outcome[r].kind = "transport"
                /\ outcome[r].err \in {"NodeApiError", "Error", "NetworkError"}
                /\ path = "fallback" =>
                       /\ execState = "thrown"
                       /\ \A q \in reqs : q > r => pc[q] = "pending" /\ hist[q] = <<>>

C5_Witness ==
    \E r \in reqs :
        /\ Len(hist[r]) = 2 /\ IsThr(hist[r][1]) /\ hist[r][2] = 0
        /\ sleeps[r] = 1
        /\ outcome[r].kind = "transport"

\* C6 (as claimed): with throttling enabled, nothing that reaches the caller
\* as data, as an error entry or as the generic HTTP error carries a status
\* of the throttle set.
C6_ThrottleStatusOnlyAsExhaustion ==
    throttlingEnabled =>
        \A r \in reqs :
            outcome[r].kind \in {"data", "errorEntry", "httpError"}
                => StatusStr(outcome[r].status) \notin ThrottleSet

\* C7 (as claimed): every sleep in progress lasts at most
\* MAX_THROTTLE_WAIT_MS.
C7_SleepWithinCap ==
    \A r \in reqs : pc[r] = "sleeping" => wait[r] <= Ticks(MAX_THROTTLE_WAIT_MS)

(***************************************************************************)
(* Properties of computeWaitMs (specification SpecWait).                   *)
(***************************************************************************)
NormIn == normalizeHeaders(wIn.raw)

HasRetryAfter == "retry-after" \in DOMAIN NormIn

RetryAfterIn == NormIn["retry-after"]

\* the header map holds a retry-after entry and nothing else
OnlyRetryAfter == DOMAIN NormIn = {"retry-after"}

\* the raw header map without its retry-after entries
WithoutRetryAfter == SelectSeq(wIn.raw, LAMBDA e : ToLowerCase(e.key) # "retry-after")

CappedDefault == IF wIn.dflt < MAX_THROTTLE_WAIT_MS THEN wIn.dflt ELSE MAX_THROTTLE_WAIT_MS

\* min(s * 1000, MAX_THROTTLE_WAIT_MS) for a retry-after of s seconds
CappedSeconds(n) ==
    IF BigLT(n, BigOf(MAX_THROTTLE_WAIT_MS \div 1000)) THEN BigToInt(n) * 1000
    ELSE MAX_THROTTLE_WAIT_MS

\* C8 (as claimed): for every header map and every default, negative ones
\* included, computeWaitMs returns a value in [0, MAX_THROTTLE_WAIT_MS].
C8_ResultInRange ==
    wOut.done => (0 <= wOut.res /\ wOut.res <= MAX_THROTTLE_WAIT_MS)

\* C9 (as claimed): for a header map holding only retry-after = s, s an
\* unsigned integer string ("0" included), computeWaitMs returns
\* min(s * 1000, MAX_THROTTLE_WAIT_MS).
C9_SecondsTimesThousand ==
    (wOut.done /\ OnlyRetryAfter /\ RetryAfterIn.t = "int" /\ BigLE(BigZero, RetryAfterIn.n))
        => wOut.res = CappedSeconds(RetryAfterIn.n)

\* C9 (amended): for a header map holding only retry-after = s, computeWaitMs
\* returns min(s * 1000, MAX_THROTTLE_WAIT_MS) when s is an unsigned integer
\* string with a finite value >= 1; for s = "0", and for a digit string too
\* long to be a finite number, the retry-after rule is skipped and the result
\* is min(D, MAX_THROTTLE_WAIT_MS).
C9_SecondsUnlessZero ==
    (wOut.done /\ OnlyRetryAfter /\ AllDigits(RetryAfterIn))
        => wOut.res = IF RetryAfterIn.t = "int" /\ BigGT(RetryAfterIn.n, BigZero)
                      THEN CappedSeconds(RetryAfterIn.n)
                      ELSE CappedDefault

C9_Witness ==
    /\ wOut.done /\ OnlyRetryAfter /\ RetryAfterIn = IntStr(0)
    /\ wIn.dflt = 5000 /\ wOut.res = 5000

RetryAfterWait ==
    IF RetryAfterIn.t = "int" THEN CappedSeconds(RetryAfterIn.n)
    ELSE IF BigGT(RetryAfterIn.n, now) THEN Cap(BigSub(RetryAfterIn.n, now)) ELSE 0

\* the retry-after value is an unsigned integer of finite size or a date
ValidRetryAfter ==
    /\ HasRetryAfter
    /\ \/ RetryAfterIn.t = "int" /\ BigLE(BigZero, RetryAfterIn.n)
       \/ RetryAfterIn.t = "date"

\* the value of the reset header the code reads (first variant holding an integer)
ResetIn == firstPresentInt(NormIn, ResetKeys)

\* C11 (as claimed): whenever retry-after is an unsigned integer or a date
\* and a valid reset header is present, computeWaitMs returns the
\* retry-after-derived wait (capped), never the reset-derived one.
C11_RetryAfterAlwaysWins ==
    (wOut.done /\ ValidRetryAfter /\ ResetIn.some) => wOut.res = RetryAfterWait

\* C11 (amended): with a valid reset header present, a retry-after value that
\* stands for a strictly positive wait wins: the result is that wait, capped.
\* A retry-after value that stands for 0 ("0", or a date not in the future)
\* is skipped, and the result is the reset-derived wait (capped) when that is
\* strictly positive and min(D, MAX_THROTTLE_WAIT_MS) otherwise.
C11_PositiveRetryAfterWins ==
    (wOut.done /\ ValidRetryAfter /\ ResetIn.some)
        => wOut.res = IF RetryAfterWait > 0 THEN RetryAfterWait
                      ELSE IF UsableWait(parseResetToWaitMs(NormIn, now))
                           THEN Cap(parseResetToWaitMs(NormIn, now).v)
                           ELSE CappedDefault

C11_Witness ==
    /\ wOut.done /\ HasRetryAfter /\ RetryAfterIn = IntStr(3)
    /\ ResetIn = Some(FutureResetSec.n) /\ wOut.res = 3000

\* C12: for a retry-after value that is empty or is neither a number nor a
\* date, parseRetryAfterToMs reports no value and computeWaitMs returns what
\* it returns for the same header map without the retry-after entry.
C12_UnparsableRetryAfterSkipped ==
    (wOut.done /\ HasRetryAfter /\ RetryAfterIn.t \in {"empty", "garbage"})
        => /\ parseRetryAfterToMs(RetryAfterIn, now) = Null
           /\ wOut.res = computeWaitMs(WithoutRetryAfter, wIn.dflt, now)

C12_Witness ==
    /\ wOut.done /\ HasRetryAfter /\ RetryAfterIn = GarbageStr
    /\ ResetIn = Some(FutureResetSec.n) /\ wOut.res = 10000

\* C13 (as claimed): for the empty header map computeWaitMs returns exactly
\* the caller's default D, for every D.
C13_EmptyMapReturnsDefault ==
    (wOut.done /\ wIn.raw = <<>>) => wOut.res = wIn.dflt

\* C13 (amended): for the empty header map computeWaitMs returns
\* min(D, MAX_THROTTLE_WAIT_MS); this is D exactly when
\* D <= MAX_THROTTLE_WAIT_MS.
C13_EmptyMapReturnsCappedDefault ==
    (wOut.done /\ wIn.raw = <<>>)
        => /\ wOut.res = Min(wIn.dflt, MAX_THROTTLE_WAIT_MS)
           /\ wIn.dflt <= MAX_THROTTLE_WAIT_MS => wOut.res = wIn.dflt

C13_Witness ==
    wOut.done /\ wIn.raw = <<>> /\ wIn.dflt = 400000 /\ wOut.res = MAX_THROTTLE_WAIT_MS

\* rule 1 applies: the retry-after header yields a strictly positive wait
RetryAfterUsable ==
    /\ Truthy(NormIn, "retry-after")
    /\ UsableWait(parseRetryAfterToMs(RetryAfterIn, now))

\* the value of the remaining-quota header the code reads
RemainingIn == firstPresentInt(NormIn, RemainingKeys)

\* the wait the reset header resolves to (no value without a reset header)
ResetWaitIn == parseResetToWaitMs(NormIn, now)

\* no retry-after header, and exactly the given remaining and reset headers
HeadersAre(keys) == DOMAIN NormIn = keys

\* C14 (as claimed): rule 2.  With no usable retry-after wait and a remaining
\* quota <= 0 the result is the reset-derived wait (capped) if that wait is
\* strictly positive, and otherwise the default D: exactly D for remaining = 0
\* without a reset header, and reset - now for remaining = 0 with a future
\* reset timestamp; for the generic and for the HubSpot header names.
C14_ExhaustedQuotaResetOrDefault ==
    (wOut.done /\ ~RetryAfterUsable /\ QuotaExhausted(RemainingIn))
        => /\ wOut.res = IF UsableWait(ResetWaitIn) THEN Cap(ResetWaitIn.v) ELSE wIn.dflt
           /\ (HeadersAre({"x-ratelimit-remaining"})
                  \/ HeadersAre({"x-hubspot-ratelimit-remaining"})) => wOut.res = wIn.dflt
           /\ ResetIn = Some(FutureResetSec.n) => wOut.res = 10000

\* C14 (amended): as claimed, except that the default is capped as well: where
\* the reset header gives no strictly positive wait the result is
\* min(D, MAX_THROTTLE_WAIT_MS).
C14_ExhaustedQuotaResetOrCappedDefault ==
    (wOut.done /\ ~RetryAfterUsable /\ QuotaExhausted(RemainingIn))
        => /\ wOut.res = IF UsableWait(ResetWaitIn) THEN Cap(ResetWaitIn.v) ELSE CappedDefault
           /\ (HeadersAre({"x-ratelimit-remaining"})
                  \/ HeadersAre({"x-hubspot-ratelimit-remaining"})) => wOut.res = CappedDefault
           /\ ResetIn = Some(FutureResetSec.n) => wOut.res = 10000

C14_Witness ==
    /\ wOut.done
    /\ HeadersAre({"x-hubspot-ratelimit-remaining", "x-hubspot-ratelimit-reset"})
    /\ RemainingIn = Some(BigZero) /\ ResetIn = Some(FutureResetSec.n)
    /\ wIn.dflt = 5000 /\ wOut.res = 10000

\* 10^9 and 10^12, the limits of the two ranges of reset values
Billion == Big(1000, 0)

Trillion == Big(BigBase, 0)

\* the epoch-millisecond instant a reset value R > 10^9 stands for
ResetInstant(R) == IF BigGT(R, Trillion) THEN R ELSE BigMul1000(R)

\* max(0, timestamp_ms - now_ms)
WaitUntil(ts) == IF BigGT(ts, now) THEN BigSub(ts, now) ELSE BigZero

ClampedPctIn == IF wIn.pct < 0 THEN 0 ELSE IF wIn.pct > 100 THEN 100 ELSE wIn.pct

\* B * c / 100 milliseconds, in ticks
VarianceTicks == wIn.base * ClampedPctIn * JitterSteps

\* C16: for every base B >= 0, every jitter percentage P (negative or above
\* 100 included) and every random draw, applyJitter(B, P) lies in
\* [max(0, B - B*c/100), B + B*c/100] with c = P clamped to [0, 100]; so
\* applyJitter(B, 0) = B, applyJitter(0, P) = 0, and the result is never
\* negative.
C16_JitterWithinBand ==
    wOut.done
        => /\ wOut.res >= Max(0, Ticks(wIn.base) - VarianceTicks)
           /\ wOut.res <= Ticks(wIn.base) + VarianceTicks
           /\ wIn.pct = 0 => wOut.res = Ticks(wIn.base)
           /\ wIn.base = 0 => wOut.res = 0
           /\ wOut.res >= 0

C16_Witness ==
    /\ wOut.done /\ wIn.base = 1000 /\ wIn.pct = 150 /\ wIn.r = 0 - JitterSteps
    /\ wOut.res = 0

\* the outcomes a logical request can end with
TerminalKinds == {"data", "errorEntry", "httpError", "maxRetries", "transport"}

\* request r has been started and has not ended
InFlight(r) == r \in reqs /\ pc[r] \in {"ready", "sleeping", "reissue"}

Ended(r) == r \in reqs /\ pc[r] = "done"

\* the largest number of executor calls one request can take
CallBound ==
    IF path = "v3" THEN (IF throttlingEnabled THEN Limit + 2 ELSE 1)
    ELSE (IF throttlingEnabled THEN Limit ELSE 1)

\* C17: provided each executor call and each sleep completes, every logical
\* request that was started eventually reaches exactly one terminal outcome
\* (success, non-throttle HTTP error, max retries exceeded or transport
\* error) after a bounded number of executor calls, and fallbackExecute
\* eventually returns or throws; no driver loops forever, even when every
\* response is throttled.
C17_Termination ==
    /\ [](\A r \in reqs :
            /\ Calls(r) <= CallBound
            /\ pc[r] = "done" <=> outcome[r].kind \in TerminalKinds
            /\ pc[r] # "done" => outcome[r] = NoOutcome)
    /\ [][\A r \in reqs : outcome[r] # NoOutcome => outcome'[r] = outcome[r]]_vars
    /\ \A r \in 1 .. NumItems : InFlight(r) ~> Ended(r)
    /\ (path = "fallback" /\ execState = "running") ~> (execState \in {"returned", "thrown"})

\* every response was throttled and the request still ended, on either path
C17_Witness ==
    \E r \in reqs :
        /\ pc[r] = "done" /\ outcome[r].kind = "maxRetries"
        /\ AllThrottled(r) /\ Limit = MaxTriesParam /\ Calls(r) >= Limit

\* the number of responses of request r its driver classified as throttled:
\* the throttled responses at the head of its history (the retry loop is
\* left at the first other response)
RECURSIVE LeadingThrottled(_, _)
LeadingThrottled(r, j) ==
    IF j > Len(hist[r]) \/ ~IsThr(hist[r][j]) THEN 0 ELSE 1 + LeadingThrottled(r, j + 1)

ThrottledResponses(r) == IF throttlingEnabled THEN LeadingThrottled(r, 1) ELSE 0

\* throttled responses of r that are not counted: throttledCall counts a
\* response when its sleep is over, and does not count the response it
\* throws the max-retries error for
Uncounted(r) ==
    IF path = "v3" /\ (pc[r] = "sleeping" \/ outcome[r].kind = "maxRetries") THEN 1 ELSE 0

\* C18: retry budgets are isolated per logical request.  The attempt counter
\* of a wrapped helper call, and of an input item of fallbackExecute, starts
\* at 0 and counts the throttle-classified responses of that request only;
\* a step that changes a counter raises it by exactly one and leaves the
\* counter and the history of every other request as they were, in every
\* interleaving of concurrent requests.
C18_RetryBudgetPerRequest ==
    /\ [](\A r \in reqs :
            /\ hist[r] = <<>> => attempt[r] = 0
            /\ attempt[r] = ThrottledResponses(r) - Uncounted(r))
    /\ [][\A r \in reqs :
            /\ attempt'[r] # attempt[r]
                 => /\ attempt'[r] = attempt[r] + 1
                    /\ \A q \in reqs \ {r} : attempt'[q] = attempt[q] /\ hist'[q] = hist[q]
            /\ hist'[r] # hist[r]
                 => \A q \in reqs \ {r} : attempt'[q] = attempt[q] /\ sleeps'[q] = sleeps[q]
       ]_vars

\* two concurrent wrapped calls with different numbers of counted retries
C18_Witness ==
    /\ path = "v3" /\ reqs = ConcReqs
    /\ attempt[1] = 2 /\ pc[1] = "ready"
    /\ attempt[2] = 0 /\ pc[2] = "sleeping" /\ Calls(2) = 1

\* C19: while one wrapped helper call is suspended in its throttle wait, any
\* other wrapped helper call can still take its next step, whichever it is:
\* issue an executor call (first try, retry or the re-issued request), or end
\* its own sleep.  A pending sleep of one request never disables a step of
\* another.
C19_SleepDoesNotBlockOthers ==
    \A r \in reqs : \A q \in reqs \ {r} :
        (path = "v3" /\ wrapped /\ pc[r] = "sleeping")
            => /\ pc[q] = "ready" => ENABLED ThrottledCallAttempt(q)
               /\ pc[q] = "sleeping" => ENABLED ThrottledCallWake(q)
               /\ pc[q] = "reissue" => ENABLED ThrottledCallReissue(q)

\* both calls are in their throttle wait at once: the second one issued its
\* executor call and went to sleep while the first was suspended
C19_Witness ==
    /\ path = "v3" /\ reqs = ConcReqs
    /\ pc[1] = "sleeping" /\ pc[2] = "sleeping"
    /\ Calls(1) = 1 /\ Calls(2) = 2

\* a response of fallbackExecute with an error status outside the throttle
\* set (any error status when throttling is switched off)
NonThrottleError(s) == s >= 400 /\ ~(throttlingEnabled /\ IsThr(s))

\* the entries of returnData paired to item r
EntriesOf(r) == {k \in 1 .. Len(returnData) : returnData[k].item = r}

\* C20: in fallbackExecute a non-throttle response with status >= 400 ends
\* its item at once: no further executor call, no sleep, no retry.  With
\* continueOnFail it yields exactly one error entry paired to the item, nothing
\* is thrown for it and the next item is started (or the execution returns);
\* without continueOnFail an HTTP error is thrown for the item, no entry is
\* added and no later item is started.  If it is the first response of the
\* item, the item took exactly one executor call.
C20_NonThrottleErrorPerItem ==
    path = "fallback" =>
      \A r \in reqs : \A j \in 1 .. Len(hist[r]) :
        NonThrottleError(hist[r][j])
          => /\ j = Calls(r) /\ pc[r] = "done" /\ wait[r] = 0
             /\ sleeps[r] = j - 1 /\ attempt[r] = j - 1
             /\ outcome[r].status = hist[r][j]
             /\ IF continueOnFail
                THEN /\ outcome[r].kind = "errorEntry"
                     /\ Cardinality(EntriesOf(r)) = 1
                     /\ returnData[r] = ItemEntry(r, "error", hist[r][j])
                     /\ IF r + 1 \in reqs THEN pc[r + 1] # "pending"
                        ELSE execState = "returned"
                ELSE /\ outcome[r].kind = "httpError"
                     /\ execState = "thrown"
                     /\ EntriesOf(r) = {}
                     /\ \A q \in reqs : q > r => pc[q] = "pending" /\ hist[q] = <<>>

\* item 1 answered 503 outside the throttle set on its only call, its error
\* entry was pushed and item 2 was processed after it
C20_Witness ==
    /\ path = "fallback" /\ continueOnFail /\ reqs = {1, 2}
    /\ hist[1] = <<503>> /\ NonThrottleError(503) /\ sleeps[1] = 0
    /\ returnData = <<ItemEntry(1, "error", 503), ItemEntry(2, "data", 200)>>
    /\ execState = "returned"

\* C21: the effective maximum retry count is max(1, input) for every integer
\* input, 0 and negative values included, in readThrottleConfig and in
\* fallbackExecute alike; a request that ends with the max-retries error has
\* issued at least one executor call, and the error names that count.
C21_MaxRetriesAtLeastOne ==
    /\ config.maxRetries = Limit /\ Limit >= 1
    /\ params.maxThrottleTries >= 1 => config.maxRetries = params.maxThrottleTries
    /\ throttlingEnabled => FallbackConfig.maxRetries = Limit
    /\ \A r \in reqs :
         outcome[r].kind = "maxRetries" => Calls(r) >= 1 /\ outcome[r].limit = Limit

\* a negative input: the request still makes its executor call before the
\* max-retries error
C21_Witness ==
    /\ path = "fallback" /\ params.maxThrottleTries < 0 /\ 1 \in reqs
    /\ outcome[1].kind = "maxRetries" /\ Calls(1) = 1 /\ outcome[1].limit = 1

\* C22: with throttlingEnabled = false the node never sleeps and never
\* retries.  On the v3 path the helpers stay unwrapped and every helper call
\* gives what the original helper gives; on the fallback path a response with
\* a status of the throttle set is handled like any other response, a status
\* >= 400 going to the HTTP-error path, after exactly one executor call.
C22_DisabledNeverRetries ==
    ~throttlingEnabled =>
      /\ ~wrapped
      /\ \A r \in reqs :
           /\ sleeps[r] = 0 /\ attempt[r] = 0 /\ wait[r] = 0
           /\ pc[r] \in {"pending", "ready", "done"}
           /\ Calls(r) <= 1
           /\ pc[r] = "done" <=> Calls(r) = 1
           /\ (pc[r] = "done" /\ hist[r][1] >= 400 /\ path = "fallback")
                => outcome[r].kind = IF continueOnFail THEN "errorEntry" ELSE "httpError"
           /\ (pc[r] = "done" /\ hist[r][1] >= 400 /\ path = "v3")
                => outcome[r].kind = IF opts[r].wantIgnore THEN "data" ELSE "httpError"
           /\ (pc[r] = "done" /\ hist[r][1] \in 1 .. 399) => outcome[r].kind = "data"
           /\ (pc[r] = "done" /\ outcome[r].kind = "data" /\ path = "v3")
                => outcome[r].full = opts[r].wantFull

\* a 429 with throttling switched off: one call, then the HTTP error
C22_Witness ==
    /\ path = "fallback" /\ ~throttlingEnabled /\ ~continueOnFail /\ 1 \in reqs
    /\ "429" \in params.throttleCodes
    /\ hist[1] = <<429>> /\ outcome[1].kind = "httpError" /\ execState = "thrown"

\* executor call j of request r was issued inside the retry loop of
\* throttledCall: every response before it was throttled
InLoop(r, j) == j \in 1 .. Calls(r) /\ ThrottledBefore(r, j)

\* C23: the wrapped helper restores the caller's response format.  Every
\* executor call issued inside the retry loop has returnFullResponse and
\* ignoreHttpStatusErrors set to true; a response of the loop that is neither
\* throttled nor an error ends the request, and the caller receives the full
\* response if it asked for returnFullResponse and only the body otherwise.
C23_ResponseFormatRestored ==
    (path = "v3" /\ wrapped) =>
      \A r \in reqs : \A j \in 1 .. Calls(r) :
        InLoop(r, j)
          => /\ sent[r][j].wantFull /\ sent[r][j].wantIgnore
             /\ (hist[r][j] \in 1 .. 399 /\ ~IsThr(hist[r][j]))
                  => /\ j = Calls(r) /\ pc[r] = "done"
                     /\ outcome[r].kind = "data"
                     /\ outcome[r].status = hist[r][j]
                     /\ outcome[r].full = opts[r].wantFull

\* the caller asked for the body only: the retry and the first call went out
\* with both flags forced, the 200 came back as body
C23_Witness ==
    /\ path = "v3" /\ wrapped /\ 1 \in reqs
    /\ ~opts[1].wantFull /\ ~opts[1].wantIgnore
    /\ hist[1] = <<429, 200>> /\ sent[1][2].wantFull /\ sent[1][2].wantIgnore
    /\ outcome[1].kind = "data" /\ ~outcome[1].full

\* the retry-after value is the integer 0
ZeroRetryAfter == HasRetryAfter /\ RetryAfterIn = IntStr(0)

\* the retry-after value is a date that is not after the current time
StaleDateRetryAfter ==
    HasRetryAfter /\ RetryAfterIn.t = "date" /\ BigLE(RetryAfterIn.n, now)

\* the result for the same headers without retry-after: rules 2-4 decide
ResultWithoutRetryAfter == computeWaitMs(WithoutRetryAfter, wIn.dflt, now)

UsableInt(k) == k \in DOMAIN NormIn /\ NormIn[k].t \in {"int", "prefix"}

\* the value of the first of three header names, in the order given, that
\* holds a usable integer
FirstOfThree(k1, k2, k3) ==
    IF UsableInt(k1) THEN Some(NormIn[k1].n)
    ELSE IF UsableInt(k2) THEN Some(NormIn[k2].n)
    ELSE IF UsableInt(k3) THEN Some(NormIn[k3].n)
    ELSE Null

\* C25: within each header family the variants are consulted in the order
\* x-ratelimit-*, x-hubspot-ratelimit-*, ratelimit-*.  The value used is that
\* of the first variant holding a non-empty value that parses as an integer;
\* an empty or unparsable variant counts as absent, and later variants are
\* ignored once a value is found: x-ratelimit-remaining = 5 next to
\* ratelimit-remaining = 0 does not make the quota exhausted, and the reset
\* wait returned is that of the first usable reset variant.
C25_VariantPriority ==
    wOut.done
        => /\ RemainingIn = FirstOfThree("x-ratelimit-remaining",
                                         "x-hubspot-ratelimit-remaining",
                                         "ratelimit-remaining")
           /\ ResetIn = FirstOfThree("x-ratelimit-reset", "x-hubspot-ratelimit-reset",
                                     "ratelimit-reset")
           /\ (UsableInt("x-ratelimit-remaining")
                  /\ BigGT(NormIn["x-ratelimit-remaining"].n, BigZero))
                => ~QuotaExhausted(RemainingIn)
           /\ (~RetryAfterUsable /\ ~UsableInt("x-ratelimit-reset")
                  /\ UsableInt("x-hubspot-ratelimit-reset")
                  /\ NormIn["x-hubspot-ratelimit-reset"] = FutureResetSec)
                => wOut.res = 10000

\* the HubSpot reset (10 s ahead) is used although the standard name, which
\* comes first in the map, holds a usable value 5 s ahead
C25_Witness ==
    /\ wOut.done /\ HeadersAre({"ratelimit-reset", "x-hubspot-ratelimit-reset"})
    /\ NormIn["ratelimit-reset"] = FutureResetMs
    /\ ResetIn = Some(FutureResetSec.n) /\ wOut.res = 10000

\* a normalized map handed in again as a raw header map
RECURSIVE EntriesOfMap(_, _)
EntriesOfMap(h, ks) ==
    IF ks = {} THEN <<>>
    ELSE LET k == CHOOSE x \in ks : TRUE
         IN  <<Entry(k, Single(h[k]))>> \o EntriesOfMap(h, ks \ {k})

AsRaw(h) == EntriesOfMap(h, DOMAIN h)

LowerCaseNames ==
    {"retry-after", "x-ratelimit-remaining", "x-ratelimit-reset",
     "x-hubspot-ratelimit-remaining", "x-hubspot-ratelimit-reset",
     "ratelimit-remaining", "ratelimit-reset"}

\* the entries of the raw map whose name is k ignoring case
RawEntriesFor(k) == SelectSeq(wIn.raw, LAMBDA e : ToLowerCase(e.key) = k)

\* the last entry of the raw map for k that is not null, if there is one
HasValueFor(k) == \E j \in 1 .. Len(RawEntriesFor(k)) : RawEntriesFor(k)[j].val.kind # "null"

LastValueFor(k) ==
    LET es == SelectSeq(RawEntriesFor(k), LAMBDA e : e.val.kind # "null")
    IN  es[Len(es)].val

\* C26: normalizeHeaders is total and idempotent.  For every raw header map
\* (the empty map, array values and null values included) the result has
\* lower-case names only and one string per name; an entry whose value is
\* null is dropped, an array contributes its first element, and normalizing
\* the result again gives the same map.
C26_NormalizeIdempotent ==
    wOut.done
        => /\ DOMAIN NormIn \subseteq LowerCaseNames
           /\ \A k \in LowerCaseNames : k \in DOMAIN NormIn <=> HasValueFor(k)
           /\ \A k \in DOMAIN NormIn :
                /\ NormIn[k].t \in {"int", "huge", "date", "empty", "garbage", "prefix"}
                /\ LastValueFor(k).kind = "single" => NormIn[k] = LastValueFor(k).items[1]
                /\ (LastValueFor(k).kind = "array" /\ Len(LastValueFor(k).items) > 0)
                     => NormIn[k] = LastValueFor(k).items[1]
           /\ wIn.raw = <<>> => NormIn = <<>>
           /\ normalizeHeaders(AsRaw(NormIn)) = NormIn

\* a repeated header next to other headers in mixed case
C26_Witness ==
    /\ wOut.done
    /\ wIn.raw = <<Entry("retry-after", Repeated(<<IntStr(5), IntStr(10)>>)),
                   Entry("X-RateLimit-Remaining", Single(IntStr(0)))>>
    /\ NormIn = [k \in {"retry-after", "x-ratelimit-remaining"} |->
                    IF k = "retry-after" THEN IntStr(5) ELSE IntStr(0)]

\* the upper-case spelling of a header name
ToUpperCase(k) ==
    CASE ToLowerCase(k) = "retry-after" -> "RETRY-AFTER"
      [] ToLowerCase(k) = "x-ratelimit-remaining" -> "X-RATELIMIT-REMAINING"
      [] ToLowerCase(k) = "x-ratelimit-reset" -> "X-RATELIMIT-RESET"
      [] ToLowerCase(k) = "x-hubspot-ratelimit-remaining" -> "X-HUBSPOT-RATELIMIT-REMAINING"
      [] ToLowerCase(k) = "x-hubspot-ratelimit-reset" -> "X-HUBSPOT-RATELIMIT-RESET"
      [] ToLowerCase(k) = "ratelimit-remaining" -> "RATELIMIT-REMAINING"
      [] ToLowerCase(k) = "ratelimit-reset" -> "RATELIMIT-RESET"
      [] OTHER -> k

\* no two names of the raw map are equal ignoring case
NoCaseCollision ==
    \A i, j \in 1 .. Len(wIn.raw) :
        i # j => ToLowerCase(wIn.raw[i].key) # ToLowerCase(wIn.raw[j].key)

\* the raw map with the name of entry i respelled
Respelled(i, k) == [wIn.raw EXCEPT ![i] = Entry(k, @.val)]

\* the raw map with every repeated header cut down to its first element
FirstElementsOnly ==
    [i \in 1 .. Len(wIn.raw) |->
        IF wIn.raw[i].val.kind = "array" /\ Len(wIn.raw[i].val.items) > 0
        THEN Entry(wIn.raw[i].key, Single(wIn.raw[i].val.items[1]))
        ELSE wIn.raw[i]]

\* C27: header lookup is case-insensitive.  For a header map with no two
\* names equal ignoring case, respelling any one name, or all of them, in
\* lower or upper case leaves the result of computeWaitMs unchanged; and a
\* repeated header is resolved from its first element only.
C27_CaseInsensitiveFirstWins ==
    wOut.done
        => /\ NoCaseCollision
                => /\ \A i \in 1 .. Len(wIn.raw) :
                        \A k \in {ToLowerCase(wIn.raw[i].key), ToUpperCase(wIn.raw[i].key)} :
                            computeWaitMs(Respelled(i, k), wIn.dflt, now) = wOut.res
                   /\ computeWaitMs([i \in 1 .. Len(wIn.raw) |->
                                       Entry(ToUpperCase(wIn.raw[i].key), wIn.raw[i].val)],
                                    wIn.dflt, now) = wOut.res
                   /\ computeWaitMs(AsRaw(NormIn), wIn.dflt, now) = wOut.res
           /\ computeWaitMs(FirstElementsOnly, wIn.dflt, now) = wOut.res

\* retry-after given twice in one response: the first value, 5 s, is used
C27_Witness ==
    /\ wOut.done /\ NoCaseCollision
    /\ wIn.raw = <<Entry("retry-after", Repeated(<<IntStr(5), IntStr(10)>>)),
                   Entry("X-RateLimit-Reset", Single(FutureResetSec))>>
    /\ wOut.res = 5000

\* header maps in which no rate-limit header holds a usable value: garbage,
\* empty text, negative numbers, digits followed by text, a digit string too
\* long for a finite number, an empty array
MalformedMaps ==
    {MalformedHeaders,
     <<Entry("Retry-After", Single(EmptyStr)),
       Entry("X-RateLimit-Remaining", Single(GarbageStr)),
       Entry("X-RateLimit-Reset", Single(IntStr(0 - 5)))>>,
     <<Entry("Retry-After", Repeated(<<>>)),
       Entry("X-RateLimit-Remaining", Single(HugeStr)),
       Entry("X-RateLimit-Reset", Single(PrefixStr(12)))>>,
     <<Entry("Retry-After", Single(HugeStr)),
       Entry("RateLimit-Remaining", Single(EmptyStr)),
       Entry("X-HubSpot-RateLimit-Reset", Single(GarbageStr))>>}

\* the wait a driver sleeps for when the headers give nothing: the default,
\* capped, with one of the jitter draws applied
DefaultWaits ==
    {applyJitter(Min(params.defaultWaitMs, MAX_THROTTLE_WAIT_MS), params.jitterPercent, d) :
        d \in JitterDraws}

\* request r can still retry after one more throttled response
BudgetLeft(r) == IF path = "v3" THEN attempt[r] < Limit ELSE attempt[r] + 1 < Limit

\* C28: malformed header input is never an error.  For every header map
\* whose retry-after, remaining and reset values are unusable computeWaitMs
\* returns a number, the capped default; a driver that receives a throttled
\* response goes to sleep whatever its headers are, as long as retries are
\* left, for such headers with the default wait; and no request fails for
\* any reason other than a throwing executor call, an HTTP error status or
\* the exhausted retry budget.
C28_MalformedHeadersNeverFail ==
    /\ [](\A m \in MalformedMaps :
            computeWaitMs(m, params.defaultWaitMs, now)
                = Min(params.defaultWaitMs, MAX_THROTTLE_WAIT_MS))
    /\ [](\A r \in reqs :
            /\ (pc[r] = "sleeping" /\ response[r].headers \in MalformedMaps)
                 => wait[r] \in DefaultWaits
            /\ outcome[r].kind = "transport" => LastStatus(r) = 0
            /\ outcome[r].kind = "httpError" => LastStatus(r) >= 400
            /\ outcome[r].kind = "maxRetries" => AllThrottled(r) /\ Calls(r) >= Limit)
    /\ [][\A r \in reqs :
            (/\ Len(hist'[r]) = Len(hist[r]) + 1
             /\ pc[r] = "ready" /\ throttlingEnabled
             /\ IsThr(hist'[r][Len(hist'[r])])
             /\ BudgetLeft(r))
            => pc'[r] = "sleeping" /\ response'[r].got]_vars

\* a 429 with unusable headers: the request is asleep for the default wait
C28_Witness ==
    \E r \in reqs :
        /\ pc[r] = "sleeping" /\ response[r] = GotResponse(MalformedHeaders)
        /\ LastStatus(r) = 429 /\ wait[r] = Ticks(params.defaultWaitMs)

\* the waits computeWaitMs and applyJitter give for one response
WaitsFor(headers) ==
    {applyJitter(computeWaitMs(headers, params.defaultWaitMs, now), params.jitterPercent, d) :
        d \in JitterDraws}

\* C29: the wait before a retry is computed only from the throttled response
\* just received.  Its base value is computeWaitMs(headers of that response,
\* defaultWaitMs), whatever the attempt number and whatever the earlier
\* responses were: in every state in which a request sleeps, its wait is a
\* function of the latest response, the configuration and the clock alone.
C29_WaitFromLatestResponseOnly ==
    \A r \in reqs :
        pc[r] = "sleeping"
            => /\ response[r].got
               /\ response[r].headers \in RespHeaderChoices
               /\ wait[r] \in WaitsFor(response[r].headers)

\* the third throttled response of a request, answered with the same base
\* wait as a first one although a response asking for 300 s is possible
C29_Witness ==
    \E r \in reqs :
        /\ pc[r] = "sleeping" /\ Calls(r) = 3 /\ sleeps[r] = 3
        /\ response[r] = GotResponse(<<>>) /\ params.jitterPercent = 0
        /\ wait[r] = Ticks(params.defaultWaitMs)

\* the arguments of the first executor call of request r
FirstSent(r) == sent[r][1]

\* what the first attempt of request r must carry: on the wrapped V3 path the
\* caller's options with both flags forced and the caller's credentials
\* arguments, on the fallback path the item's request options
ExpectedSent(r) ==
    IF path = "v3" THEN DoRequestArgs(opts[r], PatchedOptions(opts[r])) ELSE opts[r]

\* C30: every retry issued after a throttle wait carries the same request
\* options as the first attempt of its logical request, credentials arguments
\* included, and no step of the wrapper or of the fallback loop changes the
\* caller's request-options object.
C30_RetriesCarrySameOptions ==
    /\ [](\A r \in reqs : \A j \in 1 .. Calls(r) :
            ((path = "v3" => wrapped) /\ InLoop(r, j))
               => /\ Len(sent[r]) = Calls(r)
                  /\ sent[r][j] = FirstSent(r)
                  /\ sent[r][j] = ExpectedSent(r)
                  /\ sent[r][j].payload = opts[r].payload
                  /\ sent[r][j].cred = opts[r].cred)
    /\ [][opts' = opts]_vars

\* an authenticated body-only call, throttled twice: the third attempt went
\* out with the credentials and payload of the first one, and the caller's
\* options still ask for the body only
C30_Witness ==
    /\ path = "v3" /\ wrapped /\ 1 \in reqs
    /\ opts[1].cred = "oAuth2Api" /\ ~opts[1].wantFull /\ ~opts[1].wantIgnore
    /\ hist[1] = <<429, 429, 200>> /\ Len(sent[1]) = 3
    /\ sent[1][3] = sent[1][1] /\ sent[1][3].cred = "oAuth2Api"
    /\ sent[1][3].wantFull /\ sent[1][3].wantIgnore

\* the lines logged for request r
Lines(r) == log[r].lines

\* C31: exactly one log line is written for each throttle wait, once the
\* wait is computed and before the sleep starts.  Line number k of a request
\* carries the status of its k-th throttled response, the number k, the
\* configured maximum and, while the sleep lasts, the wait rounded to the
\* millisecond; the attempt number of a line never exceeds the maximum.
C31_OneLogLinePerWait ==
    /\ [](\A r \in reqs :
            /\ Len(Lines(r)) = sleeps[r]
            /\ \A k \in 1 .. Len(Lines(r)) :
                  /\ Lines(r)[k].attempt = k
                  /\ Lines(r)[k].status = hist[r][k] /\ IsThr(hist[r][k])
                  /\ Lines(r)[k].max = Limit
                  /\ Lines(r)[k].attempt <= Lines(r)[k].max
            /\ pc[r] = "sleeping"
                  => /\ log[r].waitMs = RoundMs(wait[r])
                     /\ Len(Lines(r)) = Calls(r)
                     /\ 2 * JitterScale * log[r].waitMs - JitterScale <= 2 * wait[r]
                     /\ 2 * wait[r] < 2 * JitterScale * log[r].waitMs + JitterScale)
    /\ [][\A r \in reqs :
            /\ (pc[r] # "sleeping" /\ pc'[r] = "sleeping")
                  <=> Len(Lines(r)') = Len(Lines(r)) + 1
            /\ Lines(r)' # Lines(r)
                  => /\ SubSeq(Lines(r)', 1, Len(Lines(r))) = Lines(r)
                     /\ sleeps'[r] = sleeps[r] + 1
                     /\ log'[r].waitMs = RoundMs(wait'[r])
       ]_vars

\* the wrapped helper sleeps for the second time: two lines, the second one
\* numbered 2 of 2, its wait of 2.625 ms printed as 3
C31_Witness ==
    /\ path = "v3" /\ wrapped /\ 1 \in reqs /\ pc[1] = "sleeping"
    /\ params.jitterPercent = 25 /\ params.maxThrottleTries = 2
    /\ hist[1] = <<429, 429>>
    /\ Lines(1) = <<LogLine(429, 1, 2), LogLine(429, 2, 2)>>
    /\ response[1] = GotResponse(SoonResetHeaders)
    /\ 8 * wait[1] = Ticks(21) /\ log[1].waitMs = 3

\* no header of the input yields a strictly positive wait
NoPositiveHeaderWait == ~RetryAfterUsable /\ ~UsableWait(ResetWaitIn)

\* a header of the input resolves to a wait of exactly 0: retry-after 0, a
\* retry-after date that is not in the future, or a reset instant in the past
ZeroHeaderWait ==
    \/ (Truthy(NormIn, "retry-after")
          /\ parseRetryAfterToMs(RetryAfterIn, now) = Some(BigZero))
    \/ ResetWaitIn = Some(BigZero)

\* C32: computeWaitMs never returns 0 when defaultWaitMs > 0.  A
\* header-derived wait of exactly 0 is never the result: for every header
\* map and every positive default the result is strictly positive, and when
\* no header yields a positive wait it is the default (capped).
C32_PositiveDefaultPositiveWait ==
    (wOut.done /\ wIn.dflt > 0)
        => /\ wOut.res > 0
           /\ NoPositiveHeaderWait => wOut.res = CappedDefault

\* retry-after 0 together with a reset instant in the past: both waits are 0
\* and the result is the default
C32_Witness ==
    /\ wOut.done /\ wIn.dflt = 5000 /\ wOut.res = 5000
    /\ HeadersAre({"retry-after", "x-ratelimit-reset"})
    /\ RetryAfterIn = IntStr(0) /\ ResetIn = Some(PastResetSec.n)
    /\ ZeroHeaderWait /\ NoPositiveHeaderWait

\* the reset header holds a value R with 0 <= R <= 10^9 and the clock is
\* later than R seconds after the epoch
SmallResetInPast ==
    /\ ResetIn.some /\ BigLE(BigZero, ResetIn.v) /\ BigLE(ResetIn.v, Billion)
    /\ BigGT(now, BigMul1000(ResetIn.v))

\* C33: a reset value R <= 10^9, such as the delta-seconds value 30, is read
\* as epoch seconds.  With the clock later than R seconds after the epoch the
\* reset wait is 0, and without a usable retry-after computeWaitMs returns
\* the default (capped), not R seconds.
C33_SmallResetIsEpochSeconds ==
    (wOut.done /\ SmallResetInPast)
        => /\ ResetWaitIn = Some(BigZero)
           /\ ~RetryAfterUsable
                => /\ wOut.res = CappedDefault
                   /\ (ResetIn.v = DeltaReset.n /\ wIn.dflt = 5000) => wOut.res # 30 * 1000

\* x-ratelimit-reset: 30 with an exhausted quota: the default, 5 s, is returned
C33_Witness ==
    /\ wOut.done /\ HeadersAre({"x-ratelimit-remaining", "x-ratelimit-reset"})
    /\ RemainingIn = Some(BigZero) /\ ResetIn = Some(DeltaReset.n)
    /\ SmallResetInPast /\ wIn.dflt = 5000 /\ wOut.res = 5000

\* what fallbackExecute hands back: [returnData] once it has returned,
\* nothing while it runs or after it has thrown
ReturnValue ==
    IF execState = "returned" THEN [returned |-> TRUE, data |-> returnData]
    ELSE [returned |-> FALSE, data |-> <<>>]

\* item r has used up its throttle budget: maxThrottleTries responses, all
\* of them throttled
BudgetExhausted(r) == AllThrottled(r) /\ Calls(r) = Limit

\* C34: in fallbackExecute the max-retries-exceeded error is thrown whatever
\* continueOnFail says.  When an item exhausts its throttle budget the
\* execution ends with that error: no entry is pushed for the item, no
\* request is issued for a later item, nothing runs afterwards and the
\* entries of earlier items are not returned.
C34_ExhaustionAbortsExecution ==
    /\ []((path = "fallback" /\ throttlingEnabled) =>
            \A r \in reqs :
                BudgetExhausted(r)
                  => /\ outcome[r].kind = "maxRetries" /\ pc[r] = "done"
                     /\ execState = "thrown"
                     /\ EntriesOf(r) = {}
                     /\ Len(returnData) = r - 1
                     /\ \A q \in reqs : q > r => hist[q] = <<>> /\ pc[q] = "pending"
                     /\ ~ReturnValue.returned /\ ReturnValue.data = <<>>)
    /\ [][execState # "thrown"]_vars

\* continueOnFail is set, item 1 succeeded and item 2 used up its budget: the
\* execution has thrown and the entry of item 1 is not returned
C34_Witness ==
    /\ path = "fallback" /\ throttlingEnabled /\ continueOnFail /\ reqs = {1, 2}
    /\ Limit = 2 /\ hist[1] = <<200>> /\ hist[2] = <<429, 429>> /\ BudgetExhausted(2)
    /\ returnData = <<ItemEntry(1, "data", 200)>>
    /\ outcome[2].kind = "maxRetries" /\ execState = "thrown"
    /\ ~ReturnValue.returned

\* C35: whenever fallbackExecute returns normally, its output holds exactly
\* one entry per input item, in input order, each paired to its item index.
\* While it runs, returnData holds one entry for each item already finished
\* and nothing else: throttled responses and their retries add, drop,
\* duplicate and reorder nothing.
C35_OneEntryPerItemInOrder ==
    path = "fallback" =>
        /\ \A k \in 1 .. Len(returnData) :
              /\ k \in reqs /\ returnData[k].item = k /\ pc[k] = "done"
              /\ returnData[k].status = LastStatus(k)
              /\ returnData[k].kind = (IF outcome[k].kind = "data" THEN "data" ELSE "error")
        /\ \A r \in reqs :
              Cardinality(EntriesOf(r))
                  = (IF outcome[r].kind \in {"data", "errorEntry"} THEN 1 ELSE 0)
        /\ execState = "returned"
              => /\ Len(returnData) = Cardinality(reqs)
                 /\ ReturnValue = [returned |-> TRUE, data |-> returnData]
                 /\ \A r \in reqs : returnData[r].item = r /\ EntriesOf(r) = {r}

\* two items, the first throttled once before its 200, the second throttled
\* once before a 503 outside the throttle set: two entries, in item order
C35_Witness ==
    /\ path = "fallback" /\ throttlingEnabled /\ continueOnFail /\ reqs = {1, 2}
    /\ execState = "returned"
    /\ hist[1] = <<429, 200>> /\ hist[2] = <<429, 503>> /\ ~IsThr(503)
    /\ sleeps[1] = 1 /\ sleeps[2] = 1
    /\ returnData = <<ItemEntry(1, "data", 200), ItemEntry(2, "error", 503)>>

\* item r of fallbackExecute has reached its terminal outcome
ItemEnded(r) == pc[r] = "done" /\ outcome[r].kind \in TerminalKinds

\* C36: fallbackExecute processes the items of one execution strictly one at
\* a time.  An item has an executor call only when every earlier item has
\* reached its terminal outcome (with an entry, as a thrown error ends the
\* execution); at most one item is in progress, and while it sleeps no step
\* but the end of that sleep is taken, so the wait delays every later item.
C36_ItemsOneAtATime ==
    /\ [](path = "fallback" =>
            /\ \A r, q \in reqs :
                  (r < q /\ (Calls(q) > 0 \/ pc[q] # "pending"))
                      => ItemEnded(r) /\ Cardinality(EntriesOf(r)) = 1
            /\ \A r, q \in reqs :
                  (pc[r] \in {"ready", "sleeping"} /\ pc[q] \in {"ready", "sleeping"})
                      => r = q
            /\ \A r \in reqs :
                  pc[r] \in {"ready", "sleeping"}
                      => /\ itemIndex = r
                         /\ \A q \in reqs : q > r => hist[q] = <<>> /\ sleeps[q] = 0)
    /\ [][\A r \in reqs :
            (path = "fallback" /\ pc[r] = "sleeping")
                => /\ pc'[r] = "ready" /\ hist' = hist /\ sent' = sent
                   /\ itemIndex' = itemIndex /\ returnData' = returnData
       ]_vars

\* item 1 is asleep after a 429 and item 2 has not been started
C36_Witness ==
    /\ path = "fallback" /\ throttlingEnabled /\ reqs = {1, 2}
    /\ pc[1] = "sleeping" /\ hist[1] = <<429>> /\ wait[1] > 0
    /\ pc[2] = "pending" /\ hist[2] = <<>> /\ itemIndex = 1

\* C37: in throttledCall, when the caller set ignoreHttpStatusErrors, a
\* response with status >= 400 outside the throttle set goes back to the
\* caller as data, the body or the full response as requested: no error is
\* raised, no sleep follows, and the request is not issued again, so a first
\* response of that kind means exactly one executor call.
C37_IgnoredErrorReturnedAsData ==
    (path = "v3" /\ wrapped) =>
      \A r \in reqs : \A j \in 1 .. Calls(r) :
        (opts[r].wantIgnore /\ InLoop(r, j) /\ hist[r][j] >= 400 /\ ~IsThr(hist[r][j]))
          => /\ j = Calls(r) /\ pc[r] = "done" /\ wait[r] = 0
             /\ outcome[r] = Outcome("data", hist[r][j], 0, opts[r].wantFull, "")
             /\ sleeps[r] = j - 1 /\ Len(Lines(r)) = j - 1
             /\ Len(sent[r]) = j
             /\ j = 1 => (Calls(r) = 1 /\ sleeps[r] = 0)

\* a 503 outside the throttle set on the first call of a caller who ignores
\* status errors and wants the body: one call, the body is returned
C37_Witness ==
    /\ path = "v3" /\ wrapped /\ 1 \in reqs /\ params.throttleCodes = {"429"}
    /\ opts[1].wantIgnore /\ ~opts[1].wantFull
    /\ hist[1] = <<503>> /\ Len(sent[1]) = 1 /\ sleeps[1] = 0
    /\ outcome[1] = Outcome("data", 503, 0, FALSE, "")

=============================================================================
